---- MODULE Spec2Model ----
(***************************************************************************)
(* Model of src/component.py: Component.run(), the Brevo contact update    *)
(* pipeline.  One action per statement group of run(); the exception       *)
(* handlers and the finally block are steps of their own.                  *)
(***************************************************************************)
EXTENDS Integers, Sequences, FiniteSets, TLC

VARIABLES
    pc,             \* position in run()
    in_file,        \* the input CSV file: its header columns and raw text rows
    csv_data,       \* the DataFrame (sequence of row records)
    payloads,       \* list of batches
    p,              \* index of the payload being processed
    r,              \* index of the record inside the payload
    response,       \* the last HTTP response received
    api_response,   \* return value of send_data_to_api
    timestamp,      \* the local variable `timestamp` of run()
    rows,           \* the audit rows written to output.csv after the header
    header,         \* TRUE once writeheader() ran
    output_file,    \* "unset" (attribute never assigned), "open", "closed"
    closes,         \* number of close() calls that were made on the file
    now,            \* the wall clock, in seconds
    returned_at,    \* the clock when the last API call returned
    calls,          \* the API calls made so far, in order
    exc,            \* the exception raised inside the try block ("none" if none)
    pending,        \* what leaves the try statement: "return", "exit1", "exit2"
    escaped,        \* exception raised by the finally block itself
    exit_code       \* process exit status (-1 while running)

vars == <<pc, in_file, csv_data, payloads, p, r, response, api_response,
          timestamp, rows, header, output_file, closes, now, returned_at,
          calls, exc, pending, escaped, exit_code>>

(* ------------------------------ bounds --------------------------------- *)
MaxRecords == 2      \* rows of the input table
MaxClock == 1        \* seconds the clock may advance during a run
MaxInTables == 2     \* input tables in the input mapping

(* ----------------------------- constants ------------------------------- *)
max_records_per_request == 1

selected_columns == {"email", "emailBlacklisted", "smsBlacklisted", "transactionalContact"}

(* --------------------------- text helpers ------------------------------ *)
\* Text cells are sequences of one-character strings.
s_true == <<"t", "r", "u", "e">>
s_TRUE == <<"T", "R", "U", "E">>
s_True == <<"T", "r", "u", "e">>
s_false == <<"f", "a", "l", "s", "e">>
s_xyz == <<"x", "y", "z">>
s_empty == <<>>

\* str.lower(), character by character
LowerChar(c) ==
    CASE c = "T" -> "t"
      [] c = "R" -> "r"
      [] c = "U" -> "u"
      [] c = "E" -> "e"
      [] c = "F" -> "f"
      [] c = "A" -> "a"
      [] c = "L" -> "l"
      [] c = "S" -> "s"
      [] OTHER -> c

lower(s) == [i \in DOMAIN s |-> LowerChar(s[i])]

\* A DataFrame cell read with dtype=str: a str, or NaN (a float) for a missing value
NaN == [nan |-> TRUE, s |-> <<>>]
Str(s) == [nan |-> FALSE, s |-> s]

\* pd.read_csv(..., dtype=str): an empty field is a missing value
read_cell(text) == IF text = <<>> THEN NaN ELSE Str(text)

read_csv(file) ==
    [k \in DOMAIN file.rows |->
        [email |-> file.rows[k].email,
         emailBlacklisted |-> read_cell(file.rows[k].emailBlacklisted),
         smsBlacklisted |-> read_cell(file.rows[k].smsBlacklisted),
         transactionalContact |-> read_cell(file.rows[k].transactionalContact)]]

(* ------------------------------ inputs --------------------------------- *)
InputRow(e, eb, sb, tc) ==
    [email |-> e, emailBlacklisted |-> eb, smsBlacklisted |-> sb, transactionalContact |-> tc]

\* The rows an input table is made of: every kind of cell occurs in every flag column.
InputRows ==
    { InputRow(<<"a">>, s_TRUE, s_false, s_True),
      InputRow(<<"b">>, s_xyz, s_true, s_false),
      InputRow(<<"b">>, s_false, s_True, s_empty),
      InputRow(<<"a">>, s_empty, s_false, s_true),
      InputRow(<<"b">>, s_true, s_empty, s_TRUE) }

SeqsUpTo(S, n) == UNION { [1..k -> S] : k \in 0..n }

InputFiles ==
    { [columns |-> cols, rows |-> rws] :
        cols \in {selected_columns} \cup { selected_columns \ {c} : c \in selected_columns },
        rws \in SeqsUpTo(InputRows, MaxRecords) }

\* HTTP responses.  A body is JSON or not; a JSON body is an object (dict) or a plain value.
NoBody == [json |-> FALSE, isdict |-> FALSE, dict |-> [none |-> ""], text |-> ""]
JsonObject(d) == [json |-> TRUE, isdict |-> TRUE, dict |-> d, text |-> ""]
JsonString(t) == [json |-> TRUE, isdict |-> FALSE, dict |-> [none |-> ""], text |-> t]

UpsertResponses ==
    { [code |-> c, body |-> NoBody] : c \in {204, 404, 500} }
    \cup { [code |-> 200, body |-> b] :
             b \in { JsonObject([status |-> "queued"]), JsonObject([message |-> "accepted"]),
                     JsonString("ok"), NoBody } }

DeleteResponses == { [code |-> c, body |-> NoBody] : c \in {204, 404, 200} }

(* --------------------------- pure functions ---------------------------- *)
\* Python values returned by the API client: a str or a dict
PyStr(t) == [isdict |-> FALSE, dict |-> [none |-> ""], text |-> t]
PyDict(d) == [isdict |-> TRUE, dict |-> d, text |-> ""]
Returned(v) == [raised |-> "none", value |-> v]
Raised(e) == [raised |-> e, value |-> PyStr("")]

\* response.json()
json(body) ==
    IF ~body.json THEN Raised("JSONDecodeError")
    ELSE IF body.isdict THEN Returned(PyDict(body.dict))
    ELSE Returned(PyStr(body.text))

\* send_data_to_api without its final raise: every other status is handled like 404
send_data_to_api_no_raise(resp) ==
    IF resp.code = 204 THEN Returned(PyStr("Email updated (Sms,Email)"))
    ELSE IF resp.code = 200 THEN json(resp.body)
    ELSE Returned(PyStr("Email not found"))

\* send_data_to_api: the mapping of the status code
send_data_to_api(resp) ==
    IF resp.code = 204 THEN Returned(PyStr("Email updated (Sms,Email)"))
    ELSE IF resp.code = 200 THEN json(resp.body)
    ELSE IF resp.code = 404 THEN Returned(PyStr("Email not found"))
    ELSE Raised("UserException")

\* delete_data_from_api: the mapping of the status code
delete_data_from_api(resp) ==
    IF resp.code = 204 THEN Returned(PyStr("Unblock or resubscribe a transactional Email"))
    ELSE IF resp.code = 404 THEN Returned(PyStr("Transactional Email not found"))
    ELSE Raised("UserException")

\* the status of the upsert row with api_response.get('status'), no default
row_status_no_default(resp) ==
    IF resp.isdict
    THEN IF "status" \in DOMAIN resp.dict THEN resp.dict.status ELSE ""
    ELSE resp.text

\* the status of the upsert row
row_status(resp) ==
    IF resp.isdict
    THEN IF "status" \in DOMAIN resp.dict THEN resp.dict.status ELSE "Error"
    ELSE resp.text

\* datetime.now().strftime('%Y-%m-%d %H:%M:%S'): fixed width, second precision
Digit(n) == CASE n = 0 -> "0" [] n = 1 -> "1" [] n = 2 -> "2" [] n = 3 -> "3" [] n = 4 -> "4"
              [] n = 5 -> "5" [] n = 6 -> "6" [] n = 7 -> "7" [] n = 8 -> "8" [] OTHER -> "9"
strftime(t) == <<":", Digit((t \div 10) % 10), Digit(t % 10)>>

\* create_hash: md5 of the concatenation; md5 is taken to be free of collisions
create_hash(email, ts) == [md5 |-> email \o ts]

\* the lambda of the two apply() calls; x.lower() of a float raises AttributeError
to_bool(x) == lower(x.s) = s_true

normalize(df) ==
    [k \in DOMAIN df |->
        [email |-> df[k].email,
         emailBlacklisted |-> to_bool(df[k].emailBlacklisted),
         smsBlacklisted |-> to_bool(df[k].smsBlacklisted),
         transactionalContact |-> df[k].transactionalContact]]

Min(a, b) == IF a < b THEN a ELSE b

\* [csv_data.iloc[i:i + n] ... for i in range(0, len(csv_data), n)]
make_payloads(df, n) ==
    [k \in 1..((Len(df) + n - 1) \div n) |-> SubSeq(df, (k - 1) * n + 1, Min(k * n, Len(df)))]

\* a writer that puts the new row first
writerow_prepend(file_rows, row) == <<row>> \o file_rows

\* DictWriter.writerow
writerow(file_rows, row) == Append(file_rows, row)

AuditRow(id, ts, email, status) ==
    [id |-> id, timestamp |-> ts, email |-> email, status |-> status]

(* ----------------------------- the run --------------------------------- *)
Init ==
    /\ pc = "create"
    /\ in_file = [columns |-> {}, rows |-> <<>>]
    /\ csv_data = <<>>
    /\ payloads = <<>>
    /\ p = 1
    /\ r = 1
    /\ response = [code |-> 0, body |-> NoBody]
    /\ api_response = PyStr("")
    /\ timestamp = <<>>
    /\ rows = <<>>
    /\ header = FALSE
    /\ output_file = "unset"
    /\ closes = 0
    /\ now = 0
    /\ returned_at = 0
    /\ calls = <<>>
    /\ exc = "none"
    /\ pending = "return"
    /\ escaped = "none"
    /\ exit_code = -1

\* an exception is raised inside the try block
Raise(e) == pc' = "except" /\ exc' = e

\* line 123, _create_tables_definitions: open output.csv and write the header,
\* or fail (create_out_table_definition / open raise) before _output_file is assigned
CreateTablesDefinitions ==
    /\ pc = "create"
    /\ \/ /\ output_file' = "open"
          /\ header' = TRUE
          /\ pc' = "parse"
          /\ exc' = exc
       \/ /\ Raise("OSError")
          /\ UNCHANGED <<output_file, header>>
    /\ UNCHANGED <<in_file, csv_data, payloads, p, r, response, api_response, timestamp,
                   rows, closes, now, returned_at, calls, pending, escaped, exit_code>>

\* line 126, _parse_table: exactly one input table, read as text
ParseTable ==
    /\ pc = "parse"
    /\ \E n \in 0..MaxInTables :
        IF n # 1
        THEN Raise("UserException") /\ UNCHANGED <<in_file, csv_data>>
        ELSE \E f \in InputFiles :
                /\ in_file' = f
                /\ csv_data' = read_csv(f)
                /\ pc' = "select"
                /\ exc' = exc
    /\ UNCHANGED <<payloads, p, r, response, api_response, timestamp, rows, header,
                   output_file, closes, now, returned_at, calls, pending, escaped, exit_code>>

\* line 130: csv_data[selected_columns]
SelectColumns ==
    /\ pc = "select"
    /\ IF selected_columns \subseteq in_file.columns
       THEN pc' = "normalize" /\ exc' = exc
       ELSE Raise("KeyError")
    /\ UNCHANGED <<in_file, csv_data, payloads, p, r, response, api_response, timestamp,
                   rows, header, output_file, closes, now, returned_at, calls, pending,
                   escaped, exit_code>>

\* where the loops go when the record (p, r) is finished
NextRecord ==
    IF r < Len(payloads[p])
    THEN /\ r' = r + 1
         /\ p' = p
         /\ pc' = "record"
    ELSE /\ r' = 1
         /\ p' = p + 1
         /\ pc' = IF p + 1 <= Len(payloads) THEN "send" ELSE "finally"

\* lines 133-138: the two apply() calls and the batching
NormalizeAndBatch ==
    /\ pc = "normalize"
    /\ IF \E k \in DOMAIN csv_data :
            csv_data[k].emailBlacklisted.nan \/ csv_data[k].smsBlacklisted.nan
       THEN Raise("AttributeError") /\ UNCHANGED <<csv_data, payloads>>
       ELSE /\ csv_data' = normalize(csv_data)
            /\ payloads' = make_payloads(csv_data', max_records_per_request)
            /\ pc' = IF Len(payloads') >= 1 THEN "send" ELSE "finally"
            /\ exc' = exc
    /\ UNCHANGED <<in_file, p, r, response, api_response, timestamp, rows, header,
                   output_file, closes, now, returned_at, calls, pending, escaped, exit_code>>

\* lines 143-145: the upsert call for the payload p
SendDataToApi ==
    /\ pc = "send"
    /\ IF payloads[p] = <<>>
       THEN /\ pc' = IF p + 1 <= Len(payloads) THEN "send" ELSE "finally"
            /\ p' = p + 1
            /\ UNCHANGED <<response, api_response, returned_at, calls, exc>>
       ELSE \E resp \in UpsertResponses :
            /\ response' = resp
            /\ returned_at' = now
            /\ calls' = Append(calls, [op |-> "upsert", email |-> payloads[p][1].email,
                                       code |-> resp.code, body |-> resp.body])
            /\ p' = p
            /\ LET out == send_data_to_api(resp) IN
                IF out.raised # "none"
                THEN Raise(out.raised) /\ UNCHANGED api_response
                ELSE /\ api_response' = out.value
                     /\ pc' = "record"
                     /\ exc' = exc
    /\ r' = 1
    /\ UNCHANGED <<in_file, csv_data, payloads, timestamp, rows, header, output_file,
                   closes, now, pending, escaped, exit_code>>

\* lines 149-166: timestamp, status, hash and the upsert audit row
WriteUpsertRow ==
    /\ pc = "record"
    /\ LET email == payloads[p][r].email
           ts == strftime(now)
       IN /\ timestamp' = ts
          /\ rows' = writerow(rows, AuditRow(create_hash(email, ts), ts, email,
                                             row_status(api_response)))
    /\ pc' = "check"
    /\ UNCHANGED <<in_file, csv_data, payloads, p, r, response, api_response, header,
                   output_file, closes, now, returned_at, calls, exc, pending, escaped,
                   exit_code>>

\* line 169: record.get('transactionalContact', '').lower() == 'true'
CheckTransactional ==
    /\ pc = "check"
    /\ LET tc == payloads[p][r].transactionalContact IN
        IF tc.nan
        THEN Raise("AttributeError") /\ UNCHANGED <<p, r>>
        ELSE IF lower(tc.s) = s_true
             THEN pc' = "delete" /\ UNCHANGED <<p, r, exc>>
             ELSE NextRecord /\ exc' = exc
    /\ UNCHANGED <<in_file, csv_data, payloads, response, api_response, timestamp, rows,
                   header, output_file, closes, now, returned_at, calls, pending, escaped,
                   exit_code>>

\* lines 171-180: the delete call and its audit row
DeleteDataFromApi ==
    /\ pc = "delete"
    /\ \E resp \in DeleteResponses :
        LET email == payloads[p][r].email
            out == delete_data_from_api(resp)
        IN /\ response' = resp
           /\ returned_at' = now
           /\ calls' = Append(calls, [op |-> "delete", email |-> email,
                                      code |-> resp.code, body |-> resp.body])
           /\ IF out.raised # "none"
              THEN Raise(out.raised) /\ UNCHANGED <<rows, p, r>>
              ELSE /\ rows' = writerow(rows, AuditRow(create_hash(email, timestamp), timestamp,
                                                      email, out.value.text))
                   /\ NextRecord
                   /\ exc' = exc
    /\ UNCHANGED <<in_file, csv_data, payloads, api_response, timestamp, header,
                   output_file, closes, now, pending, escaped, exit_code>>

\* lines 182-187: except UserException: exit(1); except Exception: exit(2)
HandleException ==
    /\ pc = "except"
    /\ pending' = IF exc = "UserException" THEN "exit1" ELSE "exit2"
    /\ pc' = "finally"
    /\ UNCHANGED <<in_file, csv_data, payloads, p, r, response, api_response, timestamp,
                   rows, header, output_file, closes, now, returned_at, calls, exc,
                   escaped, exit_code>>

\* lines 188-191: if self._output_file: self._output_file.close()
\* Reading the attribute raises AttributeError when it was never assigned; the
\* exception replaces the pending SystemExit and leaves run() uncaught (lines 193-195),
\* which ends the interpreter with status 1.
Finally ==
    /\ pc = "finally"
    /\ IF output_file = "unset"
       THEN /\ escaped' = "AttributeError"
            /\ exit_code' = 1
            /\ UNCHANGED <<output_file, closes>>
       ELSE /\ output_file' = "closed"
            /\ closes' = closes + 1
            /\ escaped' = escaped
            /\ exit_code' = CASE pending = "exit1" -> 1
                              [] pending = "exit2" -> 2
                              [] OTHER -> 0
    /\ pc' = "done"
    /\ UNCHANGED <<in_file, csv_data, payloads, p, r, response, api_response, timestamp,
                   rows, header, now, returned_at, calls, exc, pending>>

\* the wall clock advances
Tick ==
    /\ pc # "done"
    /\ now < MaxClock
    /\ now' = now + 1
    /\ UNCHANGED <<pc, in_file, csv_data, payloads, p, r, response, api_response,
                   timestamp, rows, header, output_file, closes, returned_at, calls,
                   exc, pending, escaped, exit_code>>

Next ==
    \/ CreateTablesDefinitions
    \/ ParseTable
    \/ SelectColumns
    \/ NormalizeAndBatch
    \/ SendDataToApi
    \/ WriteUpsertRow
    \/ CheckTransactional
    \/ DeleteDataFromApi
    \/ HandleException
    \/ Finally
    \/ Tick

Spec == Init /\ [][Next]_vars

(* ======================= properties of the run ========================= *)
Last(q) == q[Len(q)]
IsPrefix(a, b) == Len(a) <= Len(b) /\ SubSeq(b, 1, Len(a)) = a

UpsertFatal(c) == c.op = "upsert" /\ c.code \notin {204, 200, 404}
DeleteFatal(c) == c.op = "delete" /\ c.code \notin {204, 404}
FatalStatus(c) == UpsertFatal(c) \/ DeleteFatal(c)
FatalSeen == calls # <<>> /\ FatalStatus(Last(calls))

\* the call returned an outcome to run(): a non-fatal status, and for 200 a JSON body
NonFatal(c) ==
    IF c.op = "upsert"
    THEN c.code \in {204, 404} \/ (c.code = 200 /\ c.body.json)
    ELSE c.code \in {204, 404}

DeleteSentinels == {"Unblock or resubscribe a transactional Email", "Transactional Email not found"}

\* the input table was read and has the four columns
TableLoaded == selected_columns \subseteq in_file.columns

IsTrueText(text) == lower(text) = s_true

\* C1: on every exit path of run() the output file is closed exactly once: it is not
\* left open, not closed twice, and the cleanup step itself does not raise, also when
\* the failure happened before output.csv was opened.
C1_ClosedExactlyOnce ==
    pc = "done" =>
        /\ output_file # "open"
        /\ closes <= 1
        /\ (header => closes = 1)
        /\ escaped = "none"

\* C2: a fatal status (upsert other than 204/200/404, delete other than 204/404) aborts
\* the run at that call: the failed call is the last call, no audit row is written for
\* it or after it, the run is in its error path and ends with a non-zero exit code.
C2_FatalAborts ==
    /\ [](FatalSeen => /\ pc \in {"except", "finally", "done"}
                       /\ (pc = "done" => exit_code > 0))
    /\ [](\A k \in 1..(Len(calls) - 1) : ~FatalStatus(calls[k]))
    /\ [][(FatalSeen' => rows' = rows) /\ (FatalSeen => calls' = calls)]_vars

C2_Witness ==
    /\ pc = "done"
    /\ FatalSeen
    /\ Len(calls) >= 2
    /\ Len(rows) >= 1
    /\ p <= Len(payloads)
    /\ exit_code = 1

\* the upsert step and the row step of run()
UpsertReturned == pc = "send" /\ calls' # calls
UpsertRowStep == pc = "record" /\ pc' # "record"

HasStatusField(body) == body.json /\ body.isdict /\ "status" \in DOMAIN body.dict

C3_ClaimedStatus(resp) ==
    CASE resp.code = 204 -> "Email updated (Sms,Email)"
      [] resp.code = 404 -> "Email not found"
      [] OTHER -> IF HasStatusField(resp.body) THEN resp.body.dict.status ELSE "Error"

\* C3 as stated: an upsert answered 204, 200 or 404 is never a failure, and its audit row
\* has the status "Email updated (Sms,Email)" for 204, "Email not found" for 404, and for
\* 200 the body's status field, or "Error" when the body has no status field.
C3_Original ==
    [][ /\ (UpsertReturned /\ response'.code \in {204, 200, 404}) => pc' = "record"
        /\ UpsertRowStep => Last(rows').status = C3_ClaimedStatus(response) ]_vars

C3_AmendedStatus(resp) ==
    CASE resp.code = 204 -> "Email updated (Sms,Email)"
      [] resp.code = 404 -> "Email not found"
      [] OTHER -> IF ~resp.body.isdict THEN resp.body.text
                  ELSE IF "status" \in DOMAIN resp.body.dict THEN resp.body.dict.status
                  ELSE "Error"

\* C3 amended: 204 gives "Email updated (Sms,Email)", 404 gives "Email not found", 200
\* with a JSON object body gives the object's status field or "Error" when it has none,
\* 200 with any other JSON body gives that value itself; in these cases the call is not
\* a failure, exactly one row with that status is appended and the run goes on to the
\* record's delete check.  A 200 whose body is not JSON is a failure: no row is written
\* and the run takes the error path with a JSONDecodeError.
C3_Amended ==
    [][ /\ (UpsertReturned /\ (response'.code \in {204, 404}
                               \/ (response'.code = 200 /\ response'.body.json)))
              => pc' = "record" /\ rows' = rows
        /\ (UpsertReturned /\ response'.code = 200 /\ ~response'.body.json)
              => pc' = "except" /\ exc' = "JSONDecodeError" /\ rows' = rows
        /\ UpsertRowStep
              => /\ pc' = "check"
                 /\ Len(rows') = Len(rows) + 1
                 /\ SubSeq(rows', 1, Len(rows)) = rows
                 /\ Last(rows').status = C3_AmendedStatus(response) ]_vars

C3_Witness ==
    /\ pc = "done"
    /\ exit_code = 0
    /\ \E i, j \in DOMAIN rows : rows[i].status = "ok" /\ rows[j].status = "Error"

\* index in the input table of the record (p, r)
RecordIndex == (p - 1) * max_records_per_request + r

RECURSIVE ExpectedKinds(_)
\* per record: its email for the upsert row, then once more for the delete row of a
\* transactional record
ExpectedKinds(raw) ==
    IF raw = <<>> THEN <<>>
    ELSE (IF IsTrueText(raw[1].transactionalContact)
          THEN <<[email |-> raw[1].email, op |-> "upsert"], [email |-> raw[1].email, op |-> "delete"]>>
          ELSE <<[email |-> raw[1].email, op |-> "upsert"]>>)
         \o ExpectedKinds(Tail(raw))

RowKinds ==
    [k \in DOMAIN rows |->
        [email |-> rows[k].email,
         op |-> IF rows[k].status \in DeleteSentinels THEN "delete" ELSE "upsert"]]

NoCallFailed == \A k \in DOMAIN calls : NonFatal(calls[k])

BlacklistCellsFilled ==
    \A k \in DOMAIN in_file.rows :
        in_file.rows[k].emailBlacklisted # <<>> /\ in_file.rows[k].smsBlacklisted # <<>>

\* C4: in a run where every API call returns a non-fatal status, a record whose
\* transactionalContact is "true" in any letter case gives exactly two audit rows (upsert,
\* then delete), a record whose transactionalContact is "false" or empty gives exactly
\* one, and such a record does not stop the run.
C4_RowsPerRecord ==
    (pc = "done" /\ TableLoaded /\ BlacklistCellsFilled /\ NoCallFailed
        /\ \A k \in DOMAIN in_file.rows :
              \/ IsTrueText(in_file.rows[k].transactionalContact)
              \/ in_file.rows[k].transactionalContact \in {s_false, s_empty})
    => /\ exit_code = 0
       /\ RowKinds = ExpectedKinds(in_file.rows)

\* C5: the delete row of a transactional record carries a timestamp read after the delete
\* call returned, so when the clock has moved to another second between the upsert row
\* and that return, the record's two rows differ in timestamp and in id.
C5_FreshDeleteTimestamp ==
    (calls # <<>> /\ Last(calls).op = "delete" /\ NonFatal(Last(calls)))
    => LET d == rows[Len(rows)]
           u == rows[Len(rows) - 1]
       IN /\ d.timestamp = strftime(returned_at)
          /\ (strftime(returned_at) # u.timestamp
                => d.timestamp # u.timestamp /\ d.id # u.id)

\* C6: id is a key of the output table: no two audit rows of a run have the same id.
C6_IdIsKey ==
    \A i, j \in DOMAIN rows : i # j => rows[i].id # rows[j].id

\* C7: exit code 0 when the run completes; 1 for a configuration error (no input table,
\* more than one, a required column missing); 2 for any other unexpected error.  The
\* failure before the output file is opened is left to C1.
C7_ExitCodes ==
    (pc = "done" /\ output_file # "unset")
    => /\ exc = "none" => exit_code = 0
       /\ (exc = "UserException" /\ calls = <<>>) => exit_code = 1
       /\ exc = "KeyError" => exit_code = 1
       /\ exc \in {"AttributeError", "JSONDecodeError", "OSError"} => exit_code = 2

\* C8: normalization does not fail, and gives emailBlacklisted / smsBlacklisted = TRUE
\* exactly for the cells whose text is "true" in any letter case, FALSE for every other
\* cell, the empty one included.
C8_Normalization ==
    [][(pc = "normalize" /\ pc' # "normalize")
        => /\ pc' # "except"
           /\ Len(csv_data') = Len(in_file.rows)
           /\ \A k \in DOMAIN in_file.rows :
                /\ csv_data'[k].emailBlacklisted = IsTrueText(in_file.rows[k].emailBlacklisted)
                /\ csv_data'[k].smsBlacklisted = IsTrueText(in_file.rows[k].smsBlacklisted)]_vars

CeilDiv(a, b) == (a + b - 1) \div b

CallsOf(op) == SelectSeq(calls, LAMBDA c : c.op = op)
Emails(q) == [k \in DOMAIN q |-> q[k].email]
TransactionalRecords == SelectSeq(in_file.rows, LAMBDA x : IsTrueText(x.transactionalContact))

RECURSIVE Flatten(_)
Flatten(qs) == IF qs = <<>> THEN <<>> ELSE qs[1] \o Flatten(Tail(qs))

\* C9: in a run where no call fails fatally the upsert endpoint is called once per batch,
\* ceil(K/N) times, the batches being contiguous, in input order and concatenating to the
\* record sequence; the delete endpoint is called once for each transactional record and
\* for no other; for K = 0 there is no call and the output holds only the header.
C9_CallCounts ==
    (pc = "done" /\ TableLoaded /\ NoCallFailed)
    => LET K == Len(in_file.rows) IN
       /\ Len(CallsOf("upsert")) = CeilDiv(K, max_records_per_request)
       /\ Len(payloads) = CeilDiv(K, max_records_per_request)
       /\ Emails(Flatten(payloads)) = Emails(in_file.rows)
       /\ Emails(CallsOf("delete")) = Emails(TransactionalRecords)
       /\ K = 0 => calls = <<>> /\ rows = <<>> /\ header

CallKinds == [k \in DOMAIN calls |-> [email |-> calls[k].email, op |-> calls[k].op]]

\* rows written so far for the calls that returned: all of them, except that the row of
\* an upsert that has just returned is written by the next statement (line 161)
RowsDue ==
    LET returned == SelectSeq(calls, NonFatal) IN
    IF pc = "record" THEN SubSeq(returned, 1, Len(returned) - 1) ELSE returned

\* C10: with batch size 1, at every point of the run, the state after a fatal abort
\* included, the audit rows are one row per API call that returned a non-fatal outcome,
\* in the order of the calls; the calls go through the records in input order, upsert
\* before delete; rows are only appended; and the upsert row of a record is written
\* when its delete call is issued.
C10_RowsFollowCalls ==
    /\ [](/\ Len(rows) = Len(RowsDue)
          /\ \A k \in DOMAIN rows :
                /\ rows[k].email = RowsDue[k].email
                /\ (rows[k].status \in DeleteSentinels) = (RowsDue[k].op = "delete")
          /\ IsPrefix(CallKinds, ExpectedKinds(in_file.rows))
          /\ pc = "delete" =>
                /\ rows # <<>>
                /\ Last(rows).email = in_file.rows[RecordIndex].email
                /\ Last(rows).status \notin DeleteSentinels
                /\ Last(calls).op = "upsert")
    /\ [][IsPrefix(rows, rows')]_vars

C10_Witness ==
    /\ pc = "done"
    /\ FatalSeen
    /\ Len(calls) = 4
    /\ Len(rows) = 3
    /\ exit_code = 1

====
